---- MODULE Spec2Model ----
(***************************************************************************)
(* Model of buildah's internal/volumes package (volumes.go): resolution of *)
(* a batch of --mount and --volume entries into a mount plan plus the side *)
(* resources (mounted images, overlay temporary directories, cache locks)  *)
(* that the plan needs, with the rollback performed on failure.            *)
(*                                                                         *)
(* Strings that the code splits or joins are sequences of words: a path is *)
(* the sequence of its components, "/" first when absolute; a token of a   *)
(* --mount string is [k, v, n]: its key, its value and the number of "="   *)
(* signs in it.  Calls into other packages (image store, overlay, copier,  *)
(* option validation, lock files) are resolved by an environment record    *)
(* env that names the one call that fails, if any.                         *)
(***************************************************************************)
EXTENDS Integers, Sequences, FiniteSets, TLC

\* ------------------------------------------------------------ bounds
MaxMounts == 2
MaxVolumes == 2
\* entries of a batch when two builds run side by side
MaxSharedMounts == 1
\* entries of the batch whose return is awaited
MaxLiveMounts == 2

Procs == {"b1", "b2"}

\* ------------------------------------------------------------ constants
TypeBind == <<"bind">>
TypeTmpfs == <<"tmpfs">>
TypeCache == <<"cache">>
buildahCacheDir == "buildah-cache"
BuildahCacheLockfile == "buildah-cache-lockfile"
BuildahCacheLockfileDir == "buildah-cache-lockfiles"

NoErr == "nil"
errBadMntOption == "invalid mount option"
errBadOptionArg == "must provide an argument for option"
errBadVolDest == "must set volume destination"
errBadVolSrc == "must set volume source"
errDuplicateDest == "duplicate mount destination"
errInvalidSyntax == "incorrect mount format"

NoPath == <<>>
NoMount == [Type |-> "", Source |-> NoPath, Destination |-> NoPath, Options |-> <<>>]

\* ------------------------------------------------------------ tokens
Tok(k) == [k |-> k, v |-> <<>>, n |-> 0]
TokV(k, v) == [k |-> k, v |-> v, n |-> 1]
hasArgValue(val) == val.n >= 1

\* path.IsAbs / filepath.Join(workDir, targetPath)
IsAbs(p) == Len(p) > 0 /\ p[1] = "/"
Join(a, b) == a \o b

\* the target path of a target/dst/destination token
TargetPath(argValue, workDir) ==
    IF ~IsAbs(argValue) THEN Join(workDir, argValue) ELSE argValue

\* copier.Eval(root, root + "/" + source): the source below root
Eval(root, source) == root \o (IF IsAbs(source) THEN Tail(source) ELSE source)

\* ------------------------------------------------------------ effects
\* What a call did to the host: resources it acquired, releases it attempted.
Res(kind, id) == [kind |-> kind, id |-> id]
Rel(kind, id, ok, by) == [kind |-> kind, id |-> id, ok |-> ok, by |-> by]

CacheParent == <<"/", "var", "tmp", buildahCacheDir \o "-0">>

\* a faulty variant: "rw" anywhere in the options is enough
mountHasReadWrite(m) ==
    \A j \in 1..Len(m.Options) : m.Options[j] = "ro" =>
        \E i \in 1..Len(m.Options) : m.Options[i] = "rw"

\* in case of conflicts, the last of "rw" and "ro" wins
mountIsReadWrite(m) ==
    LET rw[j \in 0..Len(m.Options)] ==
            IF j = 0 THEN TRUE
            ELSE IF m.Options[j] = "rw" THEN TRUE
            ELSE IF m.Options[j] = "ro" THEN FALSE
            ELSE rw[j - 1]
    IN rw[Len(m.Options)]

\* ------------------------------------------------------------ environment
\* env.fail names the call into another package that returns an error
\* (every other one succeeds), env.isDir is what os.Stat reports for the
\* source of an overlay, env.relFail the kinds of resource whose release
\* (overlay.RemoveTemp, store.UnmountImage) returns an error.
BindFails == {"none", "ctrdir", "lookup", "mount", "eval", "hostdir", "opts",
              "tempdir", "stat", "ovlmount", "ovltype"}
CacheFails == {"none", "ctrdir", "eval", "mkdirParent", "mkdirCache", "mkdirLocks",
               "getlock", "opts"}
TmpfsFails == {"none", "ctrdir"}
RelKinds == {"image", "overlay"}

Env(f, d, rf) == [fail |-> f, isDir |-> d, relFail |-> rf]
BindEnvs ==
    {Env("none", d, {}) : d \in BOOLEAN}
        \cup {Env(f, TRUE, rf) : f \in BindFails \ {"none", "ovlmount", "ovltype"},
                                 rf \in {{}, {"image"}}}
        \cup {Env(f, d, rf) : f \in {"ovlmount", "ovltype"}, d \in BOOLEAN,
                              rf \in SUBSET RelKinds}
CacheEnvs == {Env(f, TRUE, {}) : f \in CacheFails}
TmpfsEnvs == {Env(f, TRUE, {}) : f \in TmpfsFails}

\* internalUtil.LookupImage(...).ID()
ImageID(name) == "sha256-" \o name[1]

\* overlay.TempDir(tmpDir, uid, gid): a directory no earlier call returned
TempDir(tmpDir, nonce) == tmpDir \o <<"overlay", ToString(nonce)>>

\* overlay.MountWithOptions(contentDir, source, dest, opts)
MountWithOptions(contentDir, source, dest, type) ==
    [Type |-> type, Source |-> contentDir \o <<"merge">>, Destination |-> dest,
     Options |-> <<"bind">>]

\* a faulty variant: the source itself, not its parent
DirItself(p) == p

\* filepath.Dir and filepath.Base
Dir(p) == SubSeq(p, 1, Len(p) - 1)
Base(p) == p[Len(p)]

\* lower is the directory handed to overlay.MountWithOptions as the lower layer
OverlayRet(m, overlayDir, err, acq, rel, lower) ==
    [mount |-> m, overlayDir |-> overlayDir, err |-> err, acq |-> acq, rel |-> rel,
     lower |-> lower]

convertToOverlay(m, tmpDir, nonce, env) ==
    LET overlayDir == TempDir(tmpDir, nonce)
        made == <<Res("overlay", overlayDir)>>
        sourceDir == Dir(m.Source)
        sourceBase == Base(m.Source)
        mountedOverlay ==
            MountWithOptions(overlayDir, sourceDir, m.Destination,
                             IF env.fail = "ovltype" THEN "overlay" ELSE "bind")
    IN  IF env.fail = "tempdir"
        THEN OverlayRet(NoMount, NoPath, "overlay.TempDir", <<>>, <<>>, NoPath)
        ELSE IF env.fail = "stat"
        THEN OverlayRet(NoMount, NoPath, "os.Stat", made, <<>>, NoPath)
        ELSE IF env.isDir
        THEN IF env.fail = "ovlmount"
             THEN OverlayRet(NoMount, NoPath, "overlay.MountWithOptions", made, <<>>, NoPath)
             ELSE OverlayRet(MountWithOptions(overlayDir, m.Source, m.Destination, "bind"),
                             overlayDir, NoErr, made, <<>>, m.Source)
        ELSE IF env.fail = "ovlmount"
        THEN OverlayRet(NoMount, NoPath, "overlay.MountWithOptions", made, <<>>, NoPath)
        ELSE IF mountedOverlay.Type # "bind"
        THEN OverlayRet(NoMount, NoPath,
                        IF "overlay" \in env.relFail
                        THEN "cleaning up after failing to set up overlay"
                        ELSE "setting up overlay",
                        made,
                        <<Rel("overlay", overlayDir, "overlay" \notin env.relFail,
                              "convertToOverlay")>>, NoPath)
        ELSE OverlayRet([mountedOverlay EXCEPT
                            !.Source = Join(mountedOverlay.Source, <<sourceBase>>),
                            !.Destination = m.Destination],
                        overlayDir, NoErr, made, <<>>, sourceDir)

\* parse.ValidateVolumeOpts(options): the list is rejected, or returned as it is
ValidateVolumeOpts(options, env) ==
    [err |-> IF env.fail = "opts" THEN "parse.ValidateVolumeOpts" ELSE NoErr,
     opts |-> options]

\* ------------------------------------------------------------ GetBindMount
Propagation == {"shared", "rshared", "private", "rprivate", "slave", "rslave"}

BindInit ==
    [err |-> NoErr, Options |-> <<>>, Source |-> NoPath, Destination |-> NoPath,
     setRelabel |-> <<>>, mountReadability |-> "", setDest |-> <<>>,
     bindNonRecursive |-> FALSE, fromImage |-> <<>>]

\* a faulty variant: an earlier relabel is not remembered
RelabelSetNever(st) == FALSE

\* setRelabel != ""
RelabelSet(st) == st.setRelabel # <<>>

\* one iteration of the loop over args
BindArg(val, workDir, env, st) ==
    LET argName == val.k
        argValue == val.v
        fail(e) == [st EXCEPT !.err = e]
        opt(o) == [st EXCEPT !.Options = Append(@, o)]
    IN  CASE argName = "type" -> st
          [] argName = "bind-nonrecursive" ->
                [opt("bind") EXCEPT !.bindNonRecursive = TRUE]
          [] argName \in {"nosuid", "nodev", "noexec"} -> opt(argName)
          [] argName \in {"rw", "readwrite"} ->
                [opt("rw") EXCEPT !.mountReadability = "rw"]
          [] argName \in {"ro", "readonly"} ->
                [opt("ro") EXCEPT !.mountReadability = "ro"]
          [] argName \in Propagation \cup {"Z", "z", "U", "no-dereference"} ->
                IF hasArgValue(val) THEN fail(errBadOptionArg) ELSE opt(argName)
          [] argName = "from" ->
                IF ~hasArgValue(val) THEN fail(errBadOptionArg)
                ELSE [st EXCEPT !.fromImage = argValue]
          [] argName = "bind-propagation" ->
                IF ~hasArgValue(val) THEN fail(errBadOptionArg)
                ELSE IF Len(argValue) # 1 \/ argValue[1] \notin Propagation
                THEN fail(errBadMntOption)
                ELSE opt(argValue[1])
          [] argName \in {"src", "source"} ->
                IF ~hasArgValue(val) THEN fail(errBadOptionArg)
                ELSE [st EXCEPT !.Source = argValue]
          [] argName \in {"target", "dst", "destination"} ->
                IF ~hasArgValue(val) THEN fail(errBadOptionArg)
                ELSE IF env.fail = "ctrdir"
                THEN [st EXCEPT !.setDest = argValue, !.err = "parse.ValidateVolumeCtrDir"]
                ELSE [st EXCEPT !.setDest = argValue,
                                !.Destination = TargetPath(argValue, workDir)]
          [] argName = "relabel" ->
                IF RelabelSet(st)
                THEN fail(errBadOptionArg)
                ELSE IF argValue = <<"private">>
                THEN [opt("Z") EXCEPT !.setRelabel = argValue]
                ELSE IF argValue = <<"shared">>
                THEN [opt("z") EXCEPT !.setRelabel = argValue]
                ELSE [st EXCEPT !.setRelabel = argValue, !.err = errBadMntOption]
          [] argName = "consistency" -> st
          [] OTHER -> fail(errBadMntOption)

\* the loop over args: it stops at the first token that returns an error
BindScan(args, workDir, env) ==
    LET st[i \in 0..Len(args)] ==
            IF i = 0 THEN BindInit
            ELSE IF st[i - 1].err # NoErr THEN st[i - 1]
            ELSE BindArg(args[i], workDir, env, st[i - 1])
    IN st[Len(args)]

BindRet(m, image, overlayDir, err, acq, rel) ==
    [mount |-> m, image |-> image, overlayDir |-> overlayDir, lock |-> NoPath,
     err |-> err, acq |-> acq, rel |-> rel, dirs |-> {}, blocked |-> FALSE,
     lower |-> NoPath, opts |-> <<>>]

\* a faulty variant: the deferred function unmounts nothing
BindDeferNothing(mountedImage, env) == <<>>

\* the deferred function of GetBindMount: unmount the image when !succeeded
BindDefer(mountedImage, env) ==
    IF mountedImage = "" THEN <<>>
    ELSE <<Rel("image", mountedImage, "image" \notin env.relFail, "GetBindMount")>>

\* a return of GetBindMount with an error, after the scan
BindFail(m, err, mountedImage, acq, rel, env) ==
    BindRet(m, "", NoPath, err, acq, rel \o BindDefer(mountedImage, env))

\* additionalMountPoints[name].MountPoint, NoPath when there is none
MountPointOf(additionalMountPoints, name) ==
    IF \E a \in additionalMountPoints : a.name = name
    THEN (CHOOSE a \in additionalMountPoints : a.name = name).MountPoint
    ELSE NoPath

\* the overlay of the mount, when it came from an image or is read-write
BindOverlaid(ov, mountedImage, acqImage, env) ==
    IF ov.err # NoErr
    THEN BindFail(ov.mount, ov.err, mountedImage, acqImage \o ov.acq, ov.rel, env)
    ELSE [BindRet(ov.mount, mountedImage, ov.overlayDir, NoErr, acqImage \o ov.acq, ov.rel)
             EXCEPT !.lower = ov.lower]

BindOverlay(m, mountedImage, acqImage, tmpDir, nonce, env) ==
    IF mountedImage # "" \/ mountIsReadWrite(m)
    THEN BindOverlaid(convertToOverlay(m, tmpDir, nonce, env), mountedImage, acqImage, env)
    ELSE BindRet(m, mountedImage, NoPath, NoErr, acqImage, <<>>)

\* from the check of setDest to parse.ValidateVolumeOpts; ctx is contextDir,
\* or the mount point of the image; opts is the list handed to the validation
BindChecks(st, m, ctx, mountedImage, acqImage, tmpDir, nonce, env) ==
    IF st.setDest = <<>>
    THEN BindFail(m, errBadVolDest, mountedImage, acqImage, <<>>, env)
    ELSE IF ctx # NoPath /\ env.fail = "eval"
    THEN BindFail(m, "copier.Eval", mountedImage, acqImage, <<>>, env)
    ELSE IF ctx = NoPath /\ m.Source = NoPath
    THEN BindFail(m, errBadVolSrc, mountedImage, acqImage, <<>>, env)
    ELSE IF ctx = NoPath /\ env.fail = "hostdir"
    THEN BindFail(m, "parse.ValidateVolumeHostDir", mountedImage, acqImage, <<>>, env)
    ELSE IF ValidateVolumeOpts(m.Options, env).err # NoErr
    THEN [BindFail(m, ValidateVolumeOpts(m.Options, env).err, mountedImage, acqImage,
                   <<>>, env)
             EXCEPT !.opts = m.Options]
    ELSE [BindOverlay([m EXCEPT !.Source = IF ctx # NoPath THEN Eval(ctx, @) ELSE @,
                                !.Options = ValidateVolumeOpts(@, env).opts],
                      mountedImage, acqImage, tmpDir, nonce, env)
             EXCEPT !.opts = m.Options]

\* buildkit parity: default bind option must be rbind
WithRbind(st, m) ==
    IF ~st.bindNonRecursive THEN [m EXCEPT !.Options = Append(@, "rbind")] ELSE m

\* the image named by from= is mounted when additionalMountPoints has no
\* mount point for it
BindImage(st, m, contextDir, mountPoint, tmpDir, nonce, env) ==
    IF st.fromImage = <<>>
    THEN BindChecks(st, WithRbind(st, m), contextDir, "", <<>>, tmpDir, nonce, env)
    ELSE IF mountPoint # NoPath
    THEN BindChecks(st, WithRbind(st, m), mountPoint, "", <<>>, tmpDir, nonce, env)
    ELSE IF env.fail = "lookup"
    THEN BindRet(m, "", NoPath, "LookupImage", <<>>, <<>>)
    ELSE IF env.fail = "mount"
    THEN BindRet(m, "", NoPath, "image.Mount", <<>>, <<>>)
    ELSE BindChecks(st, WithRbind(st, m), <<"/", "mnt", ImageID(st.fromImage)>>,
                    ImageID(st.fromImage), <<Res("image", ImageID(st.fromImage))>>,
                    tmpDir, nonce, env)

\* a faulty variant: no default readability
BindMountOfNoDefault(st) ==
    [Type |-> "bind", Source |-> st.Source, Destination |-> st.Destination,
     Options |-> st.Options]

\* newMount after the loop, with the default readability: read-only
BindMountOf(st) ==
    [Type |-> "bind", Source |-> st.Source, Destination |-> st.Destination,
     Options |-> IF st.mountReadability = "" THEN Append(st.Options, "ro")
                 ELSE st.Options]

BindPostScan(st, contextDir, additionalMountPoints, tmpDir, nonce, env) ==
    IF st.err # NoErr
    THEN BindRet([Type |-> "bind", Source |-> st.Source, Destination |-> st.Destination,
                  Options |-> st.Options], "", NoPath, st.err, <<>>, <<>>)
    ELSE BindImage(st, BindMountOf(st), contextDir,
                   MountPointOf(additionalMountPoints, st.fromImage), tmpDir, nonce, env)

GetBindMount(args, contextDir, additionalMountPoints, workDir, tmpDir, nonce, env) ==
    BindPostScan(BindScan(args, workDir, env), contextDir, additionalMountPoints,
                 tmpDir, nonce, env)

\* ------------------------------------------------------------ GetCacheMount
\* the string of a path or of a word
PathString(p) ==
    LET s[i \in 0..Len(p)] ==
            IF i = 0 THEN ""
            ELSE s[i - 1] \o p[i] \o (IF i < Len(p) /\ p[i] # "/" THEN "/" ELSE "")
    IN s[Len(p)]

\* digest.FromString(s).Encoded()[:16]
DirID(s) == "sha256:" \o PathString(s)

\* strconv.ParseUint(argValue, 8, 32) and strconv.Atoi(argValue) succeed
OctalNumerals == {"0755", "0700", "7"}
DecimalNumerals == {"0", "7", "1000"}
ParsesOctal(argValue) == Len(argValue) = 1 /\ argValue[1] \in OctalNumerals
ParsesDecimal(argValue) == Len(argValue) = 1 /\ argValue[1] \in DecimalNumerals

CacheInit ==
    [err |-> NoErr, Options |-> <<>>, Source |-> NoPath, Destination |-> NoPath,
     setDest |-> FALSE, setShared |-> FALSE, setReadOnly |-> FALSE,
     foundSElinuxLabel |-> FALSE, fromStage |-> <<>>, id |-> <<>>,
     mode |-> <<"0755">>, uid |-> <<"0">>, gid |-> <<"0">>, sharing |-> <<"shared">>]

\* one iteration of the loop over args
CacheArg(val, workDir, env, st) ==
    LET argName == val.k
        argValue == val.v
        fail(e) == [st EXCEPT !.err = e]
        opt(o) == [st EXCEPT !.Options = Append(@, o)]
    IN  CASE argName = "type" -> st
          [] argName \in {"nosuid", "nodev", "noexec"} -> opt(argName)
          [] argName \in {"rw", "readwrite"} -> opt("rw")
          [] argName \in {"readonly", "ro"} -> [opt("ro") EXCEPT !.setReadOnly = TRUE]
          [] argName \in {"Z", "z"} -> [opt(argName) EXCEPT !.foundSElinuxLabel = TRUE]
          [] argName \in Propagation \cup {"U"} -> [opt(argName) EXCEPT !.setShared = TRUE]
          [] argName = "sharing" -> [st EXCEPT !.sharing = argValue]
          [] argName = "bind-propagation" ->
                IF ~hasArgValue(val) THEN fail(errBadOptionArg)
                ELSE IF Len(argValue) # 1 \/ argValue[1] \notin Propagation
                THEN fail(errBadMntOption)
                ELSE opt(argValue[1])
          [] argName = "id" ->
                IF ~hasArgValue(val) THEN fail(errBadOptionArg)
                ELSE [st EXCEPT !.id = argValue]
          [] argName = "from" ->
                IF ~hasArgValue(val) THEN fail(errBadOptionArg)
                ELSE [st EXCEPT !.fromStage = argValue]
          [] argName \in {"target", "dst", "destination"} ->
                IF ~hasArgValue(val) THEN fail(errBadOptionArg)
                ELSE IF env.fail = "ctrdir" THEN fail("parse.ValidateVolumeCtrDir")
                ELSE [st EXCEPT !.Destination = TargetPath(argValue, workDir),
                                !.setDest = TRUE]
          [] argName \in {"src", "source"} ->
                IF ~hasArgValue(val) THEN fail(errBadOptionArg)
                ELSE [st EXCEPT !.Source = argValue]
          [] argName = "mode" ->
                IF ~hasArgValue(val) THEN fail(errBadOptionArg)
                ELSE IF ~ParsesOctal(argValue) THEN fail("unable to parse cache mode")
                ELSE [st EXCEPT !.mode = argValue]
          [] argName = "uid" ->
                IF ~hasArgValue(val) THEN fail(errBadOptionArg)
                ELSE IF ~ParsesDecimal(argValue) THEN fail("unable to parse cache uid")
                ELSE [st EXCEPT !.uid = argValue]
          [] argName = "gid" ->
                IF ~hasArgValue(val) THEN fail(errBadOptionArg)
                ELSE IF ~ParsesDecimal(argValue) THEN fail("unable to parse cache gid")
                ELSE [st EXCEPT !.gid = argValue]
          [] OTHER -> fail(errBadMntOption)

CacheScan(args, workDir, env) ==
    LET st[i \in 0..Len(args)] ==
            IF i = 0 THEN CacheInit
            ELSE IF st[i - 1].err # NoErr THEN st[i - 1]
            ELSE CacheArg(args[i], workDir, env, st[i - 1])
    IN st[Len(args)]

\* additionalMountPoints[name].MountPoint when the entry is no image
StagePointOf(additionalMountPoints, name) ==
    IF \E a \in additionalMountPoints : a.name = name /\ ~a.IsImage
    THEN (CHOOSE a \in additionalMountPoints : a.name = name /\ ~a.IsImage).MountPoint
    ELSE NoPath

\* a faulty variant: the key is the destination, whatever the id
CacheKeyOfDestination(id, destination) == destination

\* the directory of the cache entry: its key is the id, or else the destination
CacheKey(id, destination) == IF id # <<>> THEN id ELSE destination
CacheSource(id, destination) == Join(CacheParent, <<DirID(CacheKey(id, destination))>>)
\* a faulty variant: the lock-file directory is named after the destination alone
LockFilesDirOfDestination(id, destination) ==
    Join(CacheParent, <<BuildahCacheLockfileDir, DirID(destination)>>)

\* buildahLockFilesDir, joined with cacheParent
LockFilesDir(id, destination) ==
    Join(CacheParent, <<BuildahCacheLockfileDir, DirID(CacheKey(id, destination))>>)
\* the path handed to lockfile.GetLockFile
LockFilePath(buildahLockFilesDir) == Join(buildahLockFilesDir, <<BuildahCacheLockfile>>)

CacheRet(m, lock, err, acq, rel, dirs, blocked) ==
    [mount |-> m, image |-> "", overlayDir |-> NoPath, lock |-> lock,
     err |-> err, acq |-> acq, rel |-> rel, dirs |-> dirs, blocked |-> blocked,
     lower |-> NoPath, opts |-> <<>>]

\* a faulty variant: the deferred function unlocks nothing
CacheDeferNothing(targetLock) == <<>>

\* the deferred function of GetCacheMount: unlock when !succeeded
CacheDefer(targetLock) ==
    IF targetLock = NoPath THEN <<>>
    ELSE <<Rel("lock", targetLock, TRUE, "GetCacheMount")>>

\* a faulty variant: rw is not appended
CacheFinalOptionsNoRw(st, options) ==
    (IF ~st.setShared THEN Append(options, "shared") ELSE options) \o <<"bind">>

\* buildkit parity: shared and rw unless set otherwise, then bind
CacheFinalOptions(st, options) ==
    (IF ~st.setShared THEN Append(options, "shared") ELSE options)
        \o (IF ~st.setReadOnly THEN <<"rw">> ELSE <<>>) \o <<"bind">>

\* a faulty variant: the lock is taken for sharing=shared too
SharingLocksShared(sharing) == sharing \in {<<"locked">>, <<"shared">>}

\* the cases of the switch on sharing
SharingLocks(sharing) == sharing = <<"locked">>
SharingKnown(sharing) == sharing \in {<<"locked">>, <<"shared">>}

\* parse.ValidateVolumeOpts and the return; targetLock is NoPath when no
\* lock was taken
CacheFinish(st, m, targetLock, dirs, env) ==
    IF ValidateVolumeOpts(CacheFinalOptions(st, m.Options), env).err # NoErr
    THEN CacheRet([m EXCEPT !.Options = CacheFinalOptions(st, @)], NoPath,
                  ValidateVolumeOpts(CacheFinalOptions(st, m.Options), env).err,
                  IF targetLock # NoPath THEN <<Res("lock", targetLock)>> ELSE <<>>,
                  CacheDefer(targetLock), dirs, FALSE)
    ELSE CacheRet([m EXCEPT !.Options =
                             ValidateVolumeOpts(CacheFinalOptions(st, @), env).opts],
                  targetLock, NoErr,
                  IF targetLock # NoPath THEN <<Res("lock", targetLock)>> ELSE <<>>,
                  <<>>, dirs, FALSE)

\* from the switch on sharing to the return; buildahLockFilesDir is NoPath
\* when the source comes from a stage
CacheSharing(st, m, buildahLockFilesDir, dirs, env, granted) ==
    IF SharingLocks(st.sharing)
    THEN IF env.fail = "getlock"
         THEN CacheRet(m, NoPath, "unable to acquire lock when sharing mode is locked",
                       <<>>, <<>>, dirs, FALSE)
         ELSE IF ~granted
         THEN CacheRet(m, LockFilePath(buildahLockFilesDir), NoErr, <<>>, <<>>, dirs, TRUE)
         ELSE CacheFinish(st, m, LockFilePath(buildahLockFilesDir), dirs, env)
    ELSE IF SharingKnown(st.sharing)
    THEN CacheFinish(st, m, NoPath, dirs, env)
    ELSE CacheRet(m, NoPath, "unrecognized value for field sharing", <<>>, <<>>, dirs, FALSE)

\* the source of the mount: below the mount point of the stage named by
\* from=, or else the directory of the cache entry, created on the host
CacheSourceOf(st, m, mountPoint, env, granted) ==
    IF st.fromStage # <<>>
    THEN IF mountPoint = NoPath
         THEN CacheRet(m, NoPath, "no stage or additional build context found",
                       <<>>, <<>>, {}, FALSE)
         ELSE IF env.fail = "eval"
         THEN CacheRet(m, NoPath, "copier.Eval", <<>>, <<>>, {}, FALSE)
         ELSE CacheSharing(st, [m EXCEPT !.Source = Eval(mountPoint, @)], NoPath, {},
                           env, granted)
    ELSE IF env.fail = "mkdirParent"
    THEN CacheRet(m, NoPath, "unable to create build cache directory", <<>>, <<>>, {}, FALSE)
    ELSE IF env.fail = "mkdirCache"
    THEN CacheRet([m EXCEPT !.Source = CacheSource(st.id, m.Destination)], NoPath,
                  "unable to change uid,gid of cache directory", <<>>, <<>>,
                  {CacheParent}, FALSE)
    ELSE IF env.fail = "mkdirLocks"
    THEN CacheRet([m EXCEPT !.Source = CacheSource(st.id, m.Destination)], NoPath,
                  "unable to create build cache lockfiles directory", <<>>, <<>>,
                  {CacheParent, CacheSource(st.id, m.Destination)}, FALSE)
    ELSE CacheSharing(st, [m EXCEPT !.Source = CacheSource(st.id, m.Destination)],
                      LockFilesDir(st.id, m.Destination),
                      {CacheParent, CacheSource(st.id, m.Destination),
                       LockFilesDir(st.id, m.Destination)},
                      env, granted)

\* newMount after the loop, with the default SELinux label
CacheMountOf(st, selinux) ==
    [Type |-> "bind", Source |-> st.Source, Destination |-> st.Destination,
     Options |-> IF ~st.foundSElinuxLabel /\ selinux /\ st.fromStage = <<>>
                 THEN Append(st.Options, "z") ELSE st.Options]

CachePostScan(st, additionalMountPoints, selinux, env, granted) ==
    IF st.err # NoErr
    THEN CacheRet([Type |-> "bind", Source |-> st.Source, Destination |-> st.Destination,
                   Options |-> st.Options], NoPath, st.err, <<>>, <<>>, {}, FALSE)
    ELSE IF ~st.setDest
    THEN CacheRet(CacheMountOf(st, selinux), NoPath, errBadVolDest, <<>>, <<>>, {}, FALSE)
    ELSE CacheSourceOf(st, CacheMountOf(st, selinux),
                       StagePointOf(additionalMountPoints, st.fromStage), env, granted)

\* the call up to lockfile.Lock() when granted is FALSE (blocked says that it
\* stands there, lock names the lock file), the whole call when granted is TRUE
GetCacheMount(args, additionalMountPoints, workDir, selinux, env, granted) ==
    CachePostScan(CacheScan(args, workDir, env), additionalMountPoints, selinux, env, granted)

\* ------------------------------------------------------------ GetTmpfsMount
TmpfsInit ==
    [err |-> NoErr, Options |-> <<>>, Destination |-> NoPath, setDest |-> FALSE]

\* a faulty variant: the token is passed over
TmpfsSourceArgIgnored(st) == st

\* the case of src and source
TmpfsSourceArg(st) == [st EXCEPT !.err = "source is not supported with tmpfs mounts"]

TmpfsArg(val, workDir, env, st) ==
    LET argName == val.k
        argValue == val.v
        fail(e) == [st EXCEPT !.err = e]
        opt(o) == [st EXCEPT !.Options = Append(@, o)]
    IN  CASE argName = "type" -> st
          [] argName \in {"ro", "nosuid", "nodev", "noexec"} -> opt(argName)
          [] argName = "readonly" -> opt("ro")
          [] argName = "tmpcopyup" -> opt(argName)
          [] argName = "tmpfs-mode" ->
                IF ~hasArgValue(val) THEN fail(errBadOptionArg)
                ELSE opt("mode=" \o PathString(argValue))
          [] argName = "tmpfs-size" ->
                IF ~hasArgValue(val) THEN fail(errBadOptionArg)
                ELSE opt("size=" \o PathString(argValue))
          [] argName \in {"src", "source"} -> TmpfsSourceArg(st)
          [] argName \in {"target", "dst", "destination"} ->
                IF ~hasArgValue(val) THEN fail(errBadOptionArg)
                ELSE IF env.fail = "ctrdir" THEN fail("parse.ValidateVolumeCtrDir")
                ELSE [st EXCEPT !.Destination = TargetPath(argValue, workDir),
                                !.setDest = TRUE]
          [] OTHER -> fail(errBadMntOption)

GetTmpfsMount(args, workDir, env) ==
    LET scan[i \in 0..Len(args)] ==
            IF i = 0 THEN TmpfsInit
            ELSE IF scan[i - 1].err # NoErr THEN scan[i - 1]
            ELSE TmpfsArg(args[i], workDir, env, scan[i - 1])
        st == scan[Len(args)]
        newMount == [Type |-> "tmpfs", Source |-> TypeTmpfs,
                     Destination |-> st.Destination, Options |-> st.Options]
    IN  CacheRet(newMount, NoPath,
                 IF st.err # NoErr THEN st.err
                 ELSE IF ~st.setDest THEN errBadVolDest ELSE NoErr,
                 <<>>, <<>>, {}, FALSE)

\* ------------------------------------------------------------ inputs
workDir == <<"/", "w">>
tmpDirOf(p) == <<"/", "tmp", p>>

Word(w) == <<w>>
DestA == <<"/", "a">>
DestB == <<"b">>

TypeTok(t) == <<TokV("type", t)>>
Targets == {<<>>, <<TokV("target", DestA)>>, <<TokV("dst", DestB)>>}
BindExtras == {<<>>, <<Tok("rw")>>, <<TokV("src", Word("s")), Tok("readwrite")>>,
               <<TokV("from", Word("img"))>>, <<TokV("source", <<"/", "s">>)>>}
CacheExtras == {<<>>, <<TokV("sharing", Word("locked"))>>,
                <<TokV("sharing", Word("locked")), TokV("id", Word("k"))>>,
                <<TokV("sharing", Word("exclusive"))>>, <<Tok("rw")>>}
TmpfsExtras == {<<>>, <<TokV("src", Word("s"))>>, <<Tok("ro")>>,
                <<Tok("ro"), Tok("source")>>}

Entries(types, extras) == {t \o x \o d : t \in types, x \in extras, d \in Targets}

BindMounts == Entries({<<>>, TypeTok(TypeBind)}, BindExtras)
CacheMounts == Entries({TypeTok(TypeCache)}, CacheExtras)
TmpfsMounts == Entries({TypeTok(TypeTmpfs)}, TmpfsExtras)
                   \cup {TypeTok(TypeTmpfs) \o <<TokV("target", DestA), TokV("source", Word("s"))>>}
OddMounts == {<<TokV("type", Word("nfs")), TokV("target", DestA)>>,
              <<[k |-> "type", v |-> Word("bind=x"), n |-> 2], TokV("target", DestA)>>,
              <<Tok("type"), TokV("target", DestA)>>}

\* the --mount strings of a build: each is the sequence of its tokens
MountUniverse == BindMounts \cup CacheMounts \cup TmpfsMounts \cup OddMounts

\* the --volume strings: each is the sequence of its ":"-separated parts
VolumeUniverse == {<<<<"/", "h">>, DestA>>, <<<<"/", "h">>, <<"/", "w", "b">>, Word("ro")>>,
                   <<<<"/", "h">>>>}
VolumeLists == UNION {[1..n -> VolumeUniverse] : n \in 0..MaxVolumes}

ContextDirs == {NoPath, <<"/", "ctx">>}
ImageIDs == {ImageID(Word("img")), ImageID(Word("stg"))}

\* ------------------------------------------------------------ state
VARIABLES
    pc,         \* where each build stands in GetVolumes
    frame,      \* the locals of getMounts, then of GetVolumes
    pending,    \* the GetCacheMount call that waits in lockfile.Lock()
    ret,        \* what GetVolumes returned
    imageMounts, \* store: mount count of each image
    overlays,   \* host: overlay temporary directories that exist
    tempSeq,    \* overlay.TempDir: directories handed out to each build
    locks,      \* host: <<lock file, build>> for each lock held
    cacheDirs,  \* host: cache and lock-file directories that exist
    selinux,    \* selinux.EnforceMode() != selinux.Disabled
    acquired,   \* history: resources each build acquired, in order
    released,   \* history: releases each build attempted, in order
    last        \* history: the last entry dispatched and what its resolver returned

vars == <<pc, frame, pending, ret, imageMounts, overlays, tempSeq, locks, cacheDirs,
          selinux, acquired, released, last>>

NoFrame ==
    [contextDir |-> NoPath, mountType |-> TypeBind, finalMounts |-> {},
     mountedImages |-> <<>>, overlayDirs |-> <<>>, targetLocks |-> <<>>,
     n |-> 0, volumes |-> <<>>, err |-> NoErr]
NoPending == [tokens |-> <<>>, env |-> [fail |-> "none", isDir |-> TRUE, relFail |-> {}]]
NoRet == [mounts |-> {}, images |-> <<>>, overlays |-> <<>>, locks |-> <<>>, err |-> NoErr]
NoLast == [tokens |-> <<>>, resolver |-> "", mountType |-> <<>>, collides |-> FALSE,
           r |-> CacheRet(NoMount, NoPath, NoErr, <<>>, <<>>, {}, FALSE),
           contextDir |-> NoPath, points |-> {}, isDir |-> TRUE]

Init ==
    /\ pc = [p \in Procs |-> "idle"]
    /\ frame = [p \in Procs |-> NoFrame]
    /\ pending = [p \in Procs |-> NoPending]
    /\ ret = [p \in Procs |-> NoRet]
    /\ imageMounts = [i \in ImageIDs |-> 0]
    /\ overlays = {}
    /\ tempSeq = [p \in Procs |-> 0]
    /\ locks = {}
    /\ cacheDirs = {}
    /\ selinux \in BOOLEAN
    /\ acquired = [p \in Procs |-> <<>>]
    /\ released = [p \in Procs |-> <<>>]
    /\ last = [p \in Procs |-> NoLast]

\* ------------------------------------------------------------ host effects
Ids(events, kind) ==
    LET f[i \in 0..Len(events)] ==
            IF i = 0 THEN <<>>
            ELSE IF events[i].kind = kind THEN Append(f[i - 1], events[i].id)
            ELSE f[i - 1]
    IN f[Len(events)]
Range(seq) == {seq[i] : i \in 1..Len(seq)}
Count(seq, x) == Cardinality({i \in 1..Len(seq) : seq[i] = x})
Done(rel) == SelectSeq(rel, LAMBDA e : e.ok)

\* the host after a call that acquired acq and then attempted the releases rel
Effects(p, acq, rel, dirs) ==
    /\ imageMounts' =
          [i \in ImageIDs |->
              LET up == imageMounts[i] + Count(Ids(acq, "image"), i)
                  down == Count(Ids(Done(rel), "image"), i)
              IN IF down > up THEN 0 ELSE up - down]
    /\ overlays' = (overlays \cup Range(Ids(acq, "overlay")))
                        \ Range(Ids(Done(rel), "overlay"))
    /\ tempSeq' = [tempSeq EXCEPT ![p] = @ + Len(Ids(acq, "overlay"))]
    /\ locks' = (locks \cup {<<l, p>> : l \in Range(Ids(acq, "lock"))})
                        \ {<<l, p>> : l \in Range(Ids(rel, "lock"))}
    /\ cacheDirs' = cacheDirs \cup dirs
    /\ acquired' = [acquired EXCEPT ![p] = @ \o acq]
    /\ released' = [released EXCEPT ![p] = @ \o rel]

\* ------------------------------------------------------------ getMounts
\* the scan of the tokens for "type=": the type of the entry, given the
\* value mountType holds when the iteration starts
TypeScan(tokens, mountType) ==
    LET f[i \in 0..Len(tokens)] ==
            IF i = 0 THEN [err |-> NoErr, mountType |-> mountType]
            ELSE IF f[i - 1].err # NoErr THEN f[i - 1]
            ELSE IF tokens[i].k = "type" /\ tokens[i].n >= 1
            THEN IF tokens[i].n # 1
                 THEN [f[i - 1] EXCEPT !.err = errInvalidSyntax]
                 ELSE [f[i - 1] EXCEPT !.mountType = tokens[i].v]
            ELSE f[i - 1]
    IN f[Len(tokens)]

\* the value of mountType when an iteration of the loop over mounts starts
LoopMountType(fr) == fr.mountType

\* a faulty variant: the destination is never found in the map
HasDestinationNever(finalMounts, destination) == FALSE

\* _, ok := finalMounts[destination]
HasDestination(finalMounts, destination) ==
    \E m \in finalMounts : m.Destination = destination

\* the body of a case of the switch, after a resolver returned r
AfterResolver(fr, resolver, r) ==
    LET fr1 == [fr EXCEPT
                  !.mountedImages = IF resolver = "bind" /\ r.image # ""
                                    THEN Append(@, r.image) ELSE @,
                  !.overlayDirs = IF resolver = "bind" /\ r.overlayDir # NoPath
                                  THEN Append(@, r.overlayDir) ELSE @,
                  !.targetLocks = IF resolver = "cache" /\ r.lock # NoPath
                                  THEN Append(@, r.lock) ELSE @]
    IN  IF r.err # NoErr THEN [fr EXCEPT !.err = r.err]
        ELSE IF HasDestination(fr.finalMounts, r.mount.Destination)
        THEN [fr1 EXCEPT !.err = errDuplicateDest]
        ELSE [fr1 EXCEPT !.finalMounts = @ \cup {r.mount}]

\* a faulty variant: the locks are released first and the overlays removed last
RollbackLocksFirst(fr, relFail, by) ==
    [i \in 1..Len(fr.targetLocks) |-> Rel("lock", fr.targetLocks[i], TRUE, by)]
    \o [i \in 1..Len(fr.mountedImages) |->
        Rel("image", fr.mountedImages[i], "image" \notin relFail, by)]
    \o [i \in 1..Len(fr.overlayDirs) |->
        Rel("overlay", fr.overlayDirs[i], "overlay" \notin relFail, by)]

\* the releases of a deferred rollback: overlay directories, images, locks
Rollback(fr, relFail, by) ==
    [i \in 1..Len(fr.overlayDirs) |->
        Rel("overlay", fr.overlayDirs[i], "overlay" \notin relFail, by)]
    \o [i \in 1..Len(fr.mountedImages) |->
        Rel("image", fr.mountedImages[i], "image" \notin relFail, by)]
    \o [i \in 1..Len(fr.targetLocks) |-> Rel("lock", fr.targetLocks[i], TRUE, by)]

\* a faulty variant: the rollback runs at the failing entry and again on return
getMountsDeferredTwice(fr, relFail) ==
    Rollback(fr, relFail, "getMounts") \o Rollback(fr, relFail, "getMounts")

getMountsDeferred(fr, relFail) == Rollback(fr, relFail, "getMounts")
GetVolumesDeferred(fr, relFail) == Rollback(fr, relFail, "GetVolumes")

\* a faulty variant: the error is returned with what was accumulated so far
ErrorReturnPartial(fr) ==
    [mounts |-> fr.finalMounts, images |-> fr.mountedImages,
     overlays |-> fr.overlayDirs, locks |-> fr.targetLocks, err |-> fr.err]

\* return nil, nil, nil, nil, err
ErrorReturn(fr) == [NoRet EXCEPT !.err = fr.err]

LastOf(tokens, resolver, mountType, fr, r) ==
    [tokens |-> tokens, resolver |-> resolver, mountType |-> mountType,
     collides |-> r.err = NoErr /\ ~r.blocked /\ \E m \in fr.finalMounts :
                                       m.Destination = r.mount.Destination,
     r |-> r, contextDir |-> fr.contextDir, points |-> {}, isDir |-> TRUE]

\* GetVolumes is called
Start(p, contextDirs) ==
    /\ pc[p] = "idle"
    /\ \E c \in contextDirs : frame' = [frame EXCEPT ![p] = [NoFrame EXCEPT !.contextDir = c]]
    /\ pc' = [pc EXCEPT ![p] = "getMounts"]
    /\ UNCHANGED <<pending, ret, imageMounts, overlays, tempSeq, locks, cacheDirs,
                   selinux, acquired, released, last>>

\* the resolver returned r: the rest of the iteration
Resolved(p, tokens, resolver, mountType, r) ==
    LET fr == [frame[p] EXCEPT !.mountType = mountType, !.n = @ + 1]
        fr1 == AfterResolver(fr, resolver, r)
    IN  /\ frame' = [frame EXCEPT ![p] = fr1]
        /\ pc' = [pc EXCEPT ![p] = IF fr1.err # NoErr THEN "getMountsDefer"
                                   ELSE "getMounts"]
        /\ pending' = [pending EXCEPT ![p] = NoPending]
        /\ last' = [last EXCEPT ![p] = LastOf(tokens, resolver, mountType, fr, r)]
        /\ Effects(p, r.acq, r.rel, r.dirs)
        /\ UNCHANGED <<ret, selinux>>

\* lockfile.Lock() has to wait
Blocked(p, tokens, env, mountType, r) ==
    /\ frame' = [frame EXCEPT ![p] = [@ EXCEPT !.mountType = mountType, !.n = @ + 1]]
    /\ pc' = [pc EXCEPT ![p] = "lock"]
    /\ pending' = [pending EXCEPT ![p] = [tokens |-> tokens, env |-> env]]
    /\ last' = [last EXCEPT ![p] = LastOf(tokens, "cache", mountType, frame[p], r)]
    /\ Effects(p, <<>>, <<>>, r.dirs)
    /\ UNCHANGED <<ret, selinux>>

\* the entry is rejected before any resolver is called
Rejected(p, tokens, mountType, err) ==
    /\ frame' = [frame EXCEPT ![p] = [@ EXCEPT !.mountType = mountType, !.n = @ + 1,
                                               !.err = err]]
    /\ pc' = [pc EXCEPT ![p] = "getMountsDefer"]
    /\ last' = [last EXCEPT ![p] =
                  LastOf(tokens, "none", mountType, frame[p],
                         CacheRet(NoMount, NoPath, err, <<>>, <<>>, {}, FALSE))]
    /\ UNCHANGED <<pending, ret, imageMounts, overlays, tempSeq, locks, cacheDirs,
                   selinux, acquired, released>>

CacheCalled(p, tokens, env, mountType, r) ==
    IF r.blocked THEN Blocked(p, tokens, env, mountType, r)
    ELSE Resolved(p, tokens, "cache", mountType, r)

\* a faulty variant: the number of tokens is not looked at
TooFewTokensNever(tokens) == FALSE

\* len(tokens) < 2
TooFewTokens(tokens) == Len(tokens) < 2

\* one iteration of the loop of getMounts over the mounts, up to the return
\* of the resolver or to its wait for a lock
getMountsEntry(p, universe, maxMounts) ==
    /\ pc[p] = "getMounts"
    /\ frame[p].n < maxMounts
    /\ \E tokens \in universe :
         LET ts == TypeScan(tokens, LoopMountType(frame[p]))
             mountType == ts.mountType
         IN  IF TooFewTokens(tokens) \/ ts.err # NoErr
             THEN Rejected(p, tokens, mountType, errInvalidSyntax)
             ELSE IF mountType = TypeBind
             THEN \E env \in BindEnvs :
                    Resolved(p, tokens, "bind", mountType,
                             GetBindMount(tokens, frame[p].contextDir, {}, workDir,
                                          tmpDirOf(p), tempSeq[p], env))
             ELSE IF mountType = TypeCache
             THEN \E env \in CacheEnvs :
                    CacheCalled(p, tokens, env, mountType,
                                GetCacheMount(tokens, {}, workDir, selinux, env, FALSE))
             ELSE IF mountType = TypeTmpfs
             THEN \E env \in TmpfsEnvs :
                    Resolved(p, tokens, "tmpfs", mountType,
                             GetTmpfsMount(tokens, workDir, env))
             ELSE Rejected(p, tokens, mountType, "invalid filesystem type")

\* lockfile.Lock() returns: the lock file is held by no one
LockFree(lock) == \A q \in Procs : <<lock, q>> \notin locks

LockGranted(p, lock, r) ==
    /\ LockFree(lock)
    /\ frame' = [frame EXCEPT ![p] = AfterResolver(@, "cache", r)]
    /\ pc' = [pc EXCEPT ![p] = IF frame'[p].err # NoErr THEN "getMountsDefer"
                               ELSE "getMounts"]
    /\ pending' = [pending EXCEPT ![p] = NoPending]
    /\ last' = [last EXCEPT ![p] =
                  LastOf(pending[p].tokens, "cache", frame[p].mountType, frame[p], r)]
    /\ Effects(p, r.acq, r.rel, r.dirs)
    /\ UNCHANGED <<ret, selinux>>

getMountsLocked(p) ==
    /\ pc[p] = "lock"
    /\ LockGranted(p,
           GetCacheMount(pending[p].tokens, {}, workDir, selinux, pending[p].env, FALSE).lock,
           GetCacheMount(pending[p].tokens, {}, workDir, selinux, pending[p].env, TRUE))

\* getMounts returns an error: its deferred function runs, and GetVolumes
\* returns the error
getMountsFailed(p) ==
    /\ pc[p] = "getMountsDefer"
    /\ \E relFail \in SUBSET RelKinds :
         Effects(p, <<>>, getMountsDeferred(frame[p], relFail), {})
    /\ ret' = [ret EXCEPT ![p] = ErrorReturn(frame[p])]
    /\ pc' = [pc EXCEPT ![p] = "returned"]
    /\ UNCHANGED <<frame, pending, selinux, last>>

\* ------------------------------------------------------------ GetVolumes
\* internalParse.Volume(volume)
Volume(volume) ==
    IF Len(volume) < 2
    THEN [err |-> "incorrect volume format", mount |-> NoMount]
    ELSE [err |-> NoErr,
          mount |-> [Type |-> "rbind", Source |-> volume[1], Destination |-> volume[2],
                     Options |-> IF Len(volume) > 2 THEN volume[3] ELSE <<>>]]

getVolumeMounts(volumes) ==
    LET f[i \in 0..Len(volumes)] ==
            IF i = 0 THEN [err |-> NoErr, finalVolumeMounts |-> {}]
            ELSE IF f[i - 1].err # NoErr THEN f[i - 1]
            ELSE LET v == Volume(volumes[i])
                 IN  IF v.err # NoErr THEN [f[i - 1] EXCEPT !.err = v.err]
                     ELSE IF HasDestination(f[i - 1].finalVolumeMounts, v.mount.Destination)
                     THEN [f[i - 1] EXCEPT !.err = errDuplicateDest]
                     ELSE [f[i - 1] EXCEPT !.finalVolumeMounts = @ \cup {v.mount}]
    IN f[Len(volumes)]

\* the loop that merges volumeMounts into unifiedMounts
MergeVolumes(unifiedMounts, volumeMounts) ==
    IF \E v \in volumeMounts : HasDestination(unifiedMounts, v.Destination)
    THEN [err |-> errDuplicateDest, unifiedMounts |-> unifiedMounts]
    ELSE [err |-> NoErr, unifiedMounts |-> unifiedMounts \cup volumeMounts]

\* a faulty variant: the locks are left out of the returned lists
SuccessReturnNoLocks(fr, unifiedMounts) ==
    [mounts |-> unifiedMounts, images |-> fr.mountedImages,
     overlays |-> fr.overlayDirs, locks |-> <<>>, err |-> NoErr]

\* return finalMounts, mountedImages, overlayDirs, targetLocks, nil
SuccessReturn(fr, unifiedMounts) ==
    [mounts |-> unifiedMounts, images |-> fr.mountedImages,
     overlays |-> fr.overlayDirs, locks |-> fr.targetLocks, err |-> NoErr]

\* getMounts returned without error: the rest of GetVolumes
GetVolumesRest(p, volumeLists) ==
    /\ pc[p] = "getMounts"
    /\ \E volumes \in volumeLists :
         LET vm == getVolumeMounts(volumes)
             mg == MergeVolumes(frame[p].finalMounts, vm.finalVolumeMounts)
             err == IF vm.err # NoErr THEN vm.err ELSE mg.err
         IN  IF err # NoErr
             THEN /\ frame' = [frame EXCEPT ![p] = [@ EXCEPT !.err = err,
                                                             !.volumes = volumes]]
                  /\ pc' = [pc EXCEPT ![p] = "getVolumesDefer"]
                  /\ ret' = ret
             ELSE /\ frame' = [frame EXCEPT ![p] = [@ EXCEPT !.volumes = volumes]]
                  /\ pc' = [pc EXCEPT ![p] = "returned"]
                  /\ ret' = [ret EXCEPT ![p] = SuccessReturn(frame[p], mg.unifiedMounts)]
    /\ UNCHANGED <<pending, imageMounts, overlays, tempSeq, locks, cacheDirs,
                   selinux, acquired, released, last>>

\* GetVolumes returns an error after getMounts succeeded: its deferred function
GetVolumesFailed(p) ==
    /\ pc[p] = "getVolumesDefer"
    /\ \E relFail \in SUBSET RelKinds :
         Effects(p, <<>>, GetVolumesDeferred(frame[p], relFail), {})
    /\ ret' = [ret EXCEPT ![p] = ErrorReturn(frame[p])]
    /\ pc' = [pc EXCEPT ![p] = "returned"]
    /\ UNCHANGED <<frame, pending, selinux, last>>

\* the caller of a successful GetVolumes cleans up after the RUN step
CallerCleanup(p) ==
    /\ pc[p] = "returned"
    /\ ret[p].err = NoErr
    /\ Effects(p, <<>>,
               Rollback([overlayDirs |-> ret[p].overlays, mountedImages |-> ret[p].images,
                         targetLocks |-> ret[p].locks], {}, "caller"), {})
    /\ pc' = [pc EXCEPT ![p] = "finished"]
    /\ UNCHANGED <<frame, pending, ret, selinux, last>>

\* the steps of a build whose inputs are drawn from in
Step(p, in) ==
    \/ Start(p, in.contextDirs)
    \/ getMountsEntry(p, in.mounts, in.maxMounts)
    \/ getMountsLocked(p)
    \/ getMountsFailed(p)
    \/ GetVolumesRest(p, in.volumeLists)
    \/ GetVolumesFailed(p)
    \/ CallerCleanup(p)

\* one build
Inputs ==
    [mounts |-> MountUniverse, maxMounts |-> MaxMounts, volumeLists |-> VolumeLists,
     contextDirs |-> ContextDirs]
Next == Step("b1", Inputs)
Spec == Init /\ [][Next]_vars

\* two builds that share the host's cache
LockedMounts ==
    {TypeTok(TypeCache) \o x \o <<TokV("target", d)>> :
        x \in {<<TokV("sharing", Word("locked"))>>,
               <<TokV("sharing", Word("locked")), TokV("id", Word("k"))>>,
               <<TokV("id", Word("k"))>>},
        d \in {DestA, DestB}}
SharedInputs ==
    [mounts |-> LockedMounts, maxMounts |-> MaxSharedMounts,
     volumeLists |-> {<<>>, <<<<<<"/", "h">>>>>>}, contextDirs |-> {NoPath}]
NextShared == \E p \in Procs : Step(p, SharedInputs)
SpecShared == Init /\ [][NextShared]_vars

\* one build with several locked cache entries, no other build on the host;
\* the build is a running process: its next step is taken if it stays possible
LiveInputs == [SharedInputs EXCEPT !.maxMounts = MaxLiveMounts]
NextLive == Step("b1", LiveInputs)
SpecLive == Init /\ [][NextLive]_vars /\ WF_vars(NextLive)

\* ------------------------------------------------------------ resolver calls
\* The exported resolvers called on their own, as the callers outside this
\* package do, with a map of additional mount points.
StagePoint == [name |-> Word("stg"), MountPoint |-> <<"/", "stg">>, IsImage |-> FALSE]
ImagePoint == [name |-> Word("img"), MountPoint |-> <<"/", "pre">>, IsImage |-> TRUE]
PointSets == {{}, {StagePoint, ImagePoint}}

\* what the call and its caller's inputs were
CallOf(tokens, resolver, r, contextDir, points, env) ==
    [LastOf(tokens, resolver, <<resolver>>, NoFrame, r) EXCEPT
        !.contextDir = contextDir, !.points = points, !.isDir = env.isDir]

Returned(p, tokens, resolver, r, contextDir, points, env) ==
    /\ last' = [last EXCEPT ![p] = CallOf(tokens, resolver, r, contextDir, points, env)]
    /\ pc' = [pc EXCEPT ![p] = "called"]
    /\ pending' = [pending EXCEPT ![p] = NoPending]
    /\ Effects(p, r.acq, r.rel, r.dirs)
    /\ UNCHANGED <<frame, ret, selinux>>

CallBind(p, in) ==
    /\ pc[p] = "idle"
    /\ \E tokens \in in.bind, contextDir \in in.contextDirs, points \in in.points,
          env \in BindEnvs :
         Returned(p, tokens, "bind",
                  GetBindMount(tokens, contextDir, points, workDir, tmpDirOf(p),
                               tempSeq[p], env),
                  contextDir, points, env)

\* GetCacheMount up to its return, or up to lockfile.Lock()
CacheCall(p, tokens, points, env, r) ==
    IF r.blocked
    THEN /\ last' = [last EXCEPT ![p] = CallOf(tokens, "cache", r, NoPath, points, env)]
         /\ pc' = [pc EXCEPT ![p] = "callLock"]
         /\ pending' = [pending EXCEPT ![p] = [tokens |-> tokens, env |-> env]]
         /\ Effects(p, <<>>, <<>>, r.dirs)
         /\ UNCHANGED <<frame, ret, selinux>>
    ELSE Returned(p, tokens, "cache", r, NoPath, points, env)

CallCache(p, in) ==
    /\ pc[p] = "idle"
    /\ \E tokens \in in.cache, points \in in.points, env \in CacheEnvs :
         CacheCall(p, tokens, points, env,
                   GetCacheMount(tokens, points, workDir, selinux, env, FALSE))

\* lockfile.Lock() returns, and the rest of GetCacheMount
CallCacheLocked(p) ==
    /\ pc[p] = "callLock"
    /\ LockFree(last[p].r.lock)
    /\ Returned(p, pending[p].tokens, "cache",
                GetCacheMount(pending[p].tokens, last[p].points, workDir, selinux,
                              pending[p].env, TRUE),
                NoPath, last[p].points, pending[p].env)

\* the caller releases what a successful call handed to it
CallRelease(p) ==
    /\ pc[p] = "called"
    /\ last[p].r.err = NoErr
    /\ Effects(p, <<>>,
               Rollback([overlayDirs |-> IF last[p].r.overlayDir # NoPath
                                         THEN <<last[p].r.overlayDir>> ELSE <<>>,
                         mountedImages |-> IF last[p].r.image # ""
                                           THEN <<last[p].r.image>> ELSE <<>>,
                         targetLocks |-> IF last[p].r.lock # NoPath
                                         THEN <<last[p].r.lock>> ELSE <<>>], {}, "caller"),
               {})
    /\ pc' = [pc EXCEPT ![p] = "finished"]
    /\ UNCHANGED <<frame, pending, ret, selinux, last>>

\* one build that calls a resolver once
Readability == {<<>>, <<Tok("rw")>>, <<Tok("ro")>>, <<Tok("rw"), Tok("ro")>>,
                <<Tok("ro"), Tok("rw")>>, <<Tok("readwrite")>>, <<Tok("readonly")>>}
Relabels ==
    {<<>>, <<TokV("relabel", Word("private"))>>, <<TokV("relabel", Word("shared"))>>,
     <<TokV("relabel", Word("other"))>>, <<Tok("relabel")>>,
     <<Tok("Z"), TokV("relabel", Word("private"))>>,
     <<Tok("z"), TokV("relabel", Word("shared"))>>,
     <<TokV("relabel", Word("shared")), Tok("Z")>>,
     <<TokV("relabel", Word("private")), TokV("relabel", Word("shared"))>>,
     <<TokV("relabel", Word("shared")), Tok("nosuid"), TokV("relabel", Word("shared"))>>}
CallBindMounts ==
    {TypeTok(TypeBind) \o rd \o f \o l \o s \o d :
        rd \in Readability,
        f \in {<<>>, <<TokV("from", Word("img"))>>, <<TokV("from", Word("stg"))>>},
        l \in Relabels,
        s \in {<<>>, <<TokV("src", <<"s", "f">>)>>},
        d \in {<<>>, <<TokV("target", DestA)>>}}
Propagations ==
    {<<>>, <<Tok("shared")>>, <<Tok("rslave")>>, <<Tok("private")>>, <<Tok("U")>>,
     <<TokV("bind-propagation", Word("private"))>>, <<Tok("nodev")>>}
CallCacheMounts ==
    {TypeTok(TypeCache) \o rd \o g \o x \o d :
        rd \in Readability \ {<<Tok("rw"), Tok("ro")>>},
        g \in Propagations,
        x \in {<<>>, <<TokV("sharing", Word("locked"))>>, <<TokV("from", Word("stg"))>>},
        d \in {<<>>, <<TokV("target", DestB)>>}}
CallInputs ==
    [bind |-> CallBindMounts, cache |-> CallCacheMounts, points |-> PointSets,
     contextDirs |-> ContextDirs]
NextCalls ==
    \/ CallBind("b1", CallInputs)
    \/ CallCache("b1", CallInputs)
    \/ CallCacheLocked("b1")
    \/ CallRelease("b1")
SpecCalls == Init /\ [][NextCalls]_vars

\* two builds that call GetCacheMount, one call each
PairExtras ==
    {<<TokV("sharing", Word("locked"))>>,
     <<TokV("sharing", Word("locked")), TokV("id", Word("k"))>>,
     <<TokV("id", Word("k"))>>,
     <<TokV("id", DestA)>>,
     <<TokV("id", <<>>), TokV("sharing", Word("locked"))>>,
     <<TokV("sharing", Word("locked")), TokV("from", Word("stg")), TokV("src", Word("s1"))>>,
     <<TokV("sharing", Word("locked")), TokV("from", Word("stg")), TokV("src", Word("s2"))>>}
PairMounts ==
    {TypeTok(TypeCache) \o x \o <<TokV("target", d)>> : x \in PairExtras, d \in {DestA, DestB}}
PairInputs == [cache |-> PairMounts, points |-> PointSets]
NextPair ==
    \E p \in Procs :
        \/ CallCache(p, PairInputs)
        \/ CallCacheLocked(p)
        \/ CallRelease(p)
SpecPair == Init /\ [][NextPair]_vars

\* ------------------------------------------------------------ properties
Failed(p) == pc[p] = "returned" /\ ret[p].err # NoErr
Succeeded(p) == pc[p] = "returned" /\ ret[p].err = NoErr

\* the releases of resource x that build p attempted, and those that failed
Attempts(p, x) ==
    Cardinality({i \in 1..Len(released[p]) :
                    released[p][i].kind = x.kind /\ released[p][i].id = x.id})
Refused(p, x) ==
    Cardinality({i \in 1..Len(released[p]) :
                    /\ released[p][i].kind = x.kind
                    /\ released[p][i].id = x.id
                    /\ ~released[p][i].ok})

\* every acquisition of build p has been handed to its release operation, and
\* the host holds none of them, but for those whose release returned an error
AllReleased(p) ==
    \A x \in Range(acquired[p]) :
        /\ Attempts(p, x) >= Count(acquired[p], x)
        /\ x.kind = "lock" => <<x.id, p>> \notin locks
        /\ x.kind = "overlay" /\ Refused(p, x) = 0 => x.id \notin overlays
        /\ x.kind = "image" => imageMounts[x.id] <= Refused(p, x)

\* C1: whenever GetVolumes returns an error, every image mounted, overlay
\* directory created and lock acquired by the batch has been released, and
\* the rollback neither stops at a failing release nor changes the error.
C1_AllOrNothing ==
    \A p \in Procs : Failed(p) => AllReleased(p) /\ ret[p].err = frame[p].err

\* the destinations of the volumes, when every one of them parses
VolumesParse(volumes) == \A i \in 1..Len(volumes) : Len(volumes[i]) >= 2
VolumeCollision(fr) ==
    /\ VolumesParse(fr.volumes)
    /\ \/ \E i, j \in 1..Len(fr.volumes) : i # j /\ fr.volumes[i][2] = fr.volumes[j][2]
       \/ \E i \in 1..Len(fr.volumes) : \E m \in fr.finalMounts :
              m.Destination = fr.volumes[i][2]

\* C2: two entries of a batch that resolve to the same destination make
\* GetVolumes fail with the duplicate-destination error, with no side
\* resource of the batch held afterwards; no plan holds a destination twice.
C2_DuplicatesRejected ==
    \A p \in Procs :
        /\ last[p].collides =>
              pc[p] \in {"getMountsDefer", "returned"} /\ frame[p].err = errDuplicateDest
        /\ pc[p] = "returned" /\ (last[p].collides \/ VolumeCollision(frame[p])) =>
              ret[p].err = errDuplicateDest /\ AllReleased(p)
        /\ \A m1, m2 \in ret[p].mounts : m1.Destination = m2.Destination => m1 = m2

\* a mount entry collides with an earlier one after acquiring a resource
C2_Witness ==
    \E p \in Procs :
        /\ Failed(p) /\ last[p].collides /\ last[p].r.acq # <<>>
        /\ Len(acquired[p]) > Len(last[p].r.acq)

\* C3: whenever GetVolumes returns without error, nothing that the batch
\* acquired has been released, and the returned lists are exactly the
\* acquisitions, one entry each.
C3_OwnershipTransfer ==
    \A p \in Procs :
        Succeeded(p) =>
            /\ released[p] = <<>>
            /\ ret[p].images = Ids(acquired[p], "image")
            /\ ret[p].overlays = Ids(acquired[p], "overlay")
            /\ ret[p].locks = Ids(acquired[p], "lock")
            /\ \A l \in Range(ret[p].locks) : <<l, p>> \in locks
            /\ \A d \in Range(ret[p].overlays) : d \in overlays
            /\ \A i \in Range(ret[p].images) : imageMounts[i] >= Count(ret[p].images, i)

\* a successful batch that holds an image, an overlay directory and a lock
C3_Witness ==
    \E p \in Procs :
        Succeeded(p) /\ ret[p].images # <<>> /\ ret[p].overlays # <<>> /\ ret[p].locks # <<>>

\* C4: whenever GetVolumes returns an error, the plan and the three lists it
\* returns are empty, however many entries had been resolved.
C4_NoPartialPlan ==
    \A p \in Procs :
        Failed(p) =>
            /\ ret[p].mounts = {}
            /\ ret[p].images = <<>>
            /\ ret[p].overlays = <<>>
            /\ ret[p].locks = <<>>

\* an error after an entry was resolved and its resources were recorded
C4_Witness ==
    \E p \in Procs :
        Failed(p) /\ frame[p].finalMounts # {} /\ frame[p].overlayDirs # <<>>

\* the entry carries a type= token
HasTypeToken(tokens) == \E i \in 1..Len(tokens) : tokens[i].k = "type" /\ tokens[i].n >= 1

\* C5: an entry with no type= token is dispatched to the bind resolver,
\* whatever the types of the entries before it.
C5_TypeDefaultsToBind ==
    \A p \in Procs :
        last[p].resolver \in {"bind", "cache", "tmpfs"} /\ ~HasTypeToken(last[p].tokens)
            => last[p].resolver = "bind"

\* the releases of kind and id among the events rel
ReleasesOf(rel, kind, id) ==
    Cardinality({i \in 1..Len(rel) : rel[i].kind = kind /\ rel[i].id = id})

\* the cache entry whose lock build p holds since its last resolver call
LockedEntry(p) ==
    IF /\ last[p].resolver = "cache"
       /\ last[p].r.err = NoErr
       /\ ~last[p].r.blocked
       /\ last[p].r.lock # NoPath
       /\ <<last[p].r.lock, p>> \in locks
    THEN {last[p].r.mount.Source} ELSE {}

C6_OneHolder ==
    \A p, q \in Procs : p # q => LockedEntry(p) \cap LockedEntry(q) = {}

C6_SecondWaits ==
    \A p, q \in Procs :
        p # q /\ pc[p] = "lock" /\ last[p].r.mount.Source \in LockedEntry(q)
            => pc'[p] = "lock"

\* C6: of two builds that ask for sharing=locked on the same cache entry, no
\* two hold its lock at once, and the one that waits in GetCacheMount does
\* not return while the other holds the lock.
C6_LockedMutualExclusion == []C6_OneHolder /\ [][C6_SecondWaits]_vars

\* a build waits for the lock of the cache entry that the other build holds
C6_Witness ==
    \E p, q \in Procs :
        p # q /\ pc[p] = "lock" /\ last[p].r.mount.Source \in LockedEntry(q)

\* C7: when GetBindMount fails after it mounted the image named by from=, it
\* has unmounted that image exactly once and returns no image ID.
C7_ImageUnmountedOnFailure ==
    \A p \in Procs :
        last[p].resolver = "bind" /\ last[p].r.err # NoErr =>
            /\ last[p].r.image = ""
            /\ \A i \in Range(Ids(last[p].r.acq, "image")) :
                  ReleasesOf(last[p].r.rel, "image", i) = 1

\* GetBindMount fails in the overlay synthesis after mounting the image
C7_Witness ==
    \E p \in Procs :
        /\ last[p].resolver = "bind"
        /\ last[p].r.err = "overlay.MountWithOptions"
        /\ Ids(last[p].r.acq, "image") # <<>>

\* C8: when convertToOverlay fails after it allocated its temporary
\* directory, the directory has been removed before GetBindMount returns.
C8_NoDanglingOverlay ==
    \A p \in Procs :
        last[p].resolver = "bind" /\ last[p].r.err # NoErr =>
            \A d \in Range(Ids(last[p].r.acq, "overlay")) :
                ReleasesOf(last[p].r.rel, "overlay", d) >= 1

\* C9: when GetCacheMount fails after it took the lock, it has unlocked it
\* and returns no lock; no failing call leaves a lock held.
C9_LockReleasedOnFailure ==
    \A p \in Procs :
        last[p].resolver = "cache" /\ last[p].r.err # NoErr =>
            /\ last[p].r.lock = NoPath
            /\ \A l \in Range(Ids(last[p].r.acq, "lock")) :
                  /\ ReleasesOf(last[p].r.rel, "lock", l) >= 1
                  /\ <<l, p>> \notin locks

\* the option validation fails after the lock was taken
C9_Witness ==
    \E p \in Procs :
        /\ last[p].resolver = "cache"
        /\ last[p].r.err = "parse.ValidateVolumeOpts"
        /\ Ids(last[p].r.acq, "lock") # <<>>

\* the value of the last sharing token, "shared" when there is none
EffectiveSharing(tokens) ==
    LET f[i \in 0..Len(tokens)] ==
            IF i = 0 THEN <<"shared">>
            ELSE IF tokens[i].k = "sharing" THEN tokens[i].v
            ELSE f[i - 1]
    IN f[Len(tokens)]

\* C10: a successful GetCacheMount returns a held lock exactly when the
\* effective sharing value is locked; with shared (or no sharing token) no
\* lock is taken at any point; any other value makes the call fail, no lock held.
C10_LockIffLocked ==
    \A p \in Procs :
        last[p].resolver = "cache" =>
            LET r == last[p].r
                sharing == EffectiveSharing(last[p].tokens)
            IN  /\ r.err = NoErr /\ ~r.blocked =>
                      /\ r.lock # NoPath <=> sharing = <<"locked">>
                      /\ r.lock # NoPath =>
                            /\ Ids(r.acq, "lock") = <<r.lock>>
                            /\ r.rel = <<>>
                            /\ pc[p] \in {"getMounts", "getMountsDefer"}
                                  => <<r.lock, p>> \in locks
                /\ sharing = <<"shared">> =>
                      ~r.blocked /\ r.lock = NoPath /\ Ids(r.acq, "lock") = <<>>
                /\ sharing \notin {<<"shared">>, <<"locked">>} =>
                      r.err # NoErr /\ ~r.blocked /\ Ids(r.acq, "lock") = <<>>

\* a successful call with sharing=locked that returns its lock
C10_Witness ==
    \E p \in Procs :
        /\ last[p].resolver = "cache"
        /\ last[p].r.err = NoErr /\ ~last[p].r.blocked
        /\ last[p].r.lock # NoPath
        /\ EffectiveSharing(last[p].tokens) = <<"locked">>


\* GetCacheMount returned to build p without error
CacheResolved(p) ==
    /\ last[p].resolver = "cache"
    /\ last[p].r.err = NoErr /\ ~last[p].r.blocked

\* the value of the token named k that the scan sees last, <<>> when none
LastValue(tokens, k) ==
    LET f[i \in 0..Len(tokens)] ==
            IF i = 0 THEN <<>>
            ELSE IF tokens[i].k = k THEN tokens[i].v ELSE f[i - 1]
    IN f[Len(tokens)]

\* C11: of two successful cache resolutions with sharing=locked, the lock
\* files are the same exactly when the cache entries (the host directories
\* that are mounted) are the same, also when the source comes from a stage.
C11_LockScopedToEntry ==
    \A p, q \in Procs :
        CacheResolved(p) /\ CacheResolved(q)
            /\ last[p].r.lock # NoPath /\ last[q].r.lock # NoPath
            => (last[p].r.lock = last[q].r.lock
                    <=> last[p].r.mount.Source = last[q].r.mount.Source)

\* the same, for the resolutions whose source is the host cache (no from=)
LockScopedWithoutFrom ==
    \A p, q \in Procs :
        CacheResolved(p) /\ CacheResolved(q)
            /\ last[p].r.lock # NoPath /\ last[q].r.lock # NoPath
            /\ LastValue(last[p].tokens, "from") = <<>>
            /\ LastValue(last[q].tokens, "from") = <<>>
            => (last[p].r.lock = last[q].r.lock
                    <=> last[p].r.mount.Source = last[q].r.mount.Source)

\* the effective key of a cache specification: the id when one is given,
\* the resolved destination otherwise
EffectiveKey(p) ==
    IF LastValue(last[p].tokens, "id") # <<>>
    THEN PathString(LastValue(last[p].tokens, "id"))
    ELSE PathString(last[p].r.mount.Destination)

\* C12: two cache resolutions without from= get the same host directory
\* exactly when their effective keys are equal: the id when one is given,
\* the resolved destination otherwise.
C12_CacheDirByKey ==
    \A p, q \in Procs :
        CacheResolved(p) /\ CacheResolved(q)
            /\ LastValue(last[p].tokens, "from") = <<>>
            /\ LastValue(last[q].tokens, "from") = <<>>
            => (last[p].r.mount.Source = last[q].r.mount.Source
                    <=> EffectiveKey(p) = EffectiveKey(q))

\* two builds resolved the same id with different destinations
C12_Witness ==
    /\ CacheResolved("b1") /\ CacheResolved("b2")
    /\ LastValue(last["b1"].tokens, "id") = Word("k")
    /\ LastValue(last["b2"].tokens, "id") = Word("k")
    /\ last["b1"].r.mount.Destination # last["b2"].r.mount.Destination
    /\ last["b1"].r.mount.Source = last["b2"].r.mount.Source


\* GetBindMount returned to build p without error
BindResolved(p) == last[p].resolver = "bind" /\ last[p].r.err = NoErr

\* the readability that the tokens ask for: the last of rw, readwrite, ro,
\* readonly; "" when there is none
AskedReadability(tokens) ==
    LET f[i \in 0..Len(tokens)] ==
            IF i = 0 THEN ""
            ELSE IF tokens[i].k \in {"rw", "readwrite"} THEN "rw"
            ELSE IF tokens[i].k \in {"ro", "readonly"} THEN "ro"
            ELSE f[i - 1]
    IN f[Len(tokens)]

\* from= names an image: one that the call mounts, or one mounted beforehand
NamesImage(p) ==
    LET from == LastValue(last[p].tokens, "from")
    IN  /\ from # <<>>
        /\ \A a \in last[p].points : a.name = from => a.IsImage

\* the source that the build asked for, below the directory it is taken from
RawSource(p) ==
    LET from == LastValue(last[p].tokens, "from")
        src == LastValue(last[p].tokens, "src")
        ctx == IF from = <<>> THEN last[p].contextDir
               ELSE IF \E a \in last[p].points : a.name = from
               THEN (CHOOSE a \in last[p].points : a.name = from).MountPoint
               ELSE <<"/", "mnt", ImageID(from)>>
    IN  IF ctx # NoPath THEN ctx \o src ELSE src

\* the mount of build p is an overlay over its source, or the source itself
Overlaid(p) ==
    /\ last[p].r.overlayDir # NoPath
    /\ last[p].r.overlayDir \in overlays
    /\ SubSeq(last[p].r.mount.Source, 1, Len(last[p].r.overlayDir) + 1)
          = last[p].r.overlayDir \o <<"merge">>
Exposed(p) ==
    /\ last[p].r.overlayDir = NoPath
    /\ last[p].r.mount.Source = RawSource(p)

\* C13 as stated: a successful GetBindMount hands out an overlay exactly
\* when from= names an image or the options resolve to read-write (the last
\* of the rw and ro tokens), and the raw source in every other case.
C13_OverlayWhenFromImage ==
    \A p \in Procs :
        BindResolved(p) /\ pc[p] = "called" =>
            IF NamesImage(p) \/ AskedReadability(last[p].tokens) = "rw"
            THEN Overlaid(p) ELSE Exposed(p)

\* C13: a successful GetBindMount hands out an overlay exactly when the call
\* itself mounted the image named by from= or the options resolve to
\* read-write (the last of the rw and ro tokens), and the raw source in every
\* other case, a from= name found among the additional mount points included.
C13_OverlayWhenNeeded ==
    \A p \in Procs :
        BindResolved(p) /\ pc[p] = "called" =>
            IF last[p].r.image # "" \/ AskedReadability(last[p].tokens) = "rw"
            THEN Overlaid(p) ELSE Exposed(p)

\* an overlay for a specification whose last readability token is rw
C13_Witness ==
    /\ BindResolved("b1") /\ pc["b1"] = "called"
    /\ \E i \in 1..Len(last["b1"].tokens) : last["b1"].tokens[i].k = "ro"
    /\ AskedReadability(last["b1"].tokens) = "rw"
    /\ last["b1"].r.image = ""
    /\ Overlaid("b1")


\* C14: when the source of the overlay is not a directory, the lower layer
\* is the parent directory of the source, the source of the returned mount
\* is the entry of the same name in the merged view, its destination is the
\* destination asked for, and the overlay directory is returned.
C14_SingleFileOverlay ==
    \A p \in Procs :
        BindResolved(p) /\ pc[p] = "called"
            /\ last[p].r.overlayDir # NoPath /\ ~last[p].isDir
            => LET source == RawSource(p)
                   dest == LastValue(last[p].tokens, "target")
               IN  /\ last[p].r.lower = SubSeq(source, 1, Len(source) - 1)
                   /\ last[p].r.mount.Source
                         = last[p].r.overlayDir \o <<"merge", source[Len(source)]>>
                   /\ last[p].r.mount.Destination
                         = (IF dest[1] = "/" THEN dest ELSE workDir \o dest)
                   /\ last[p].r.overlayDir \in overlays

\* a read-write bind of a file of the context directory
C14_Witness ==
    /\ BindResolved("b1") /\ pc["b1"] = "called"
    /\ ~last["b1"].isDir
    /\ last["b1"].contextDir # NoPath
    /\ LastValue(last["b1"].tokens, "src") = <<"s", "f">>
    /\ last["b1"].r.lower = last["b1"].contextDir \o <<"s">>
    /\ last["b1"].r.overlayDir # NoPath

\* C15: a bind mount resolved from a specification with none of the tokens
\* rw, readwrite, ro, readonly has ro and not rw among the options handed to
\* the validation, and gets an overlay only if the call mounted an image.
C15_BindDefaultsReadOnly ==
    \A p \in Procs :
        BindResolved(p) /\ AskedReadability(last[p].tokens) = ""
            => /\ "ro" \in Range(last[p].r.opts)
               /\ "rw" \notin Range(last[p].r.opts)
               /\ last[p].r.overlayDir # NoPath => last[p].r.image # ""

\* a bind of a host directory with no readability token and no overlay
C15_Witness ==
    /\ BindResolved("b1")
    /\ AskedReadability(last["b1"].tokens) = ""
    /\ last["b1"].r.image = "" /\ last["b1"].r.overlayDir = NoPath
    /\ last["b1"].r.mount.Options = last["b1"].r.opts
    /\ "ro" \in Range(last["b1"].r.opts)

\* C16: a cache mount resolved from a specification with none of the tokens
\* rw, readwrite, ro, readonly has rw and not ro among its options.
C16_CacheDefaultsReadWrite ==
    \A p \in Procs :
        CacheResolved(p) /\ AskedReadability(last[p].tokens) = ""
            => /\ "rw" \in Range(last[p].r.mount.Options)
               /\ "ro" \notin Range(last[p].r.mount.Options)

\* a cache mount with no readability token
C16_Witness ==
    /\ CacheResolved("b1")
    /\ AskedReadability(last["b1"].tokens) = ""
    /\ "rw" \in Range(last["b1"].r.mount.Options)

\* the specification sets a propagation flag
SetsPropagation(tokens) == \E i \in 1..Len(tokens) : tokens[i].k \in Propagation

\* the "shared" options that the tokens themselves put in the list
AskedShared(tokens) ==
    Cardinality({i \in 1..Len(tokens) :
                    \/ tokens[i].k = "shared"
                    \/ tokens[i].k = "bind-propagation" /\ tokens[i].v = Word("shared")})

\* C17: the option list that GetCacheMount builds has a "shared" appended by
\* the finalization exactly when the specification sets none of the flags
\* shared, rshared, private, rprivate, slave, rslave.
C17_SharedUnlessPropagation ==
    \A p \in Procs :
        CacheResolved(p) =>
            (Count(last[p].r.mount.Options, "shared") = AskedShared(last[p].tokens) + 1
                <=> ~SetsPropagation(last[p].tokens))


\* the last entry that getMounts of build p took up has fewer than two tokens
ShortEntry(p) == last[p].resolver # "" /\ Len(last[p].tokens) < 2

\* the host and the resources of build p
Held(p) == <<imageMounts, overlays, locks, cacheDirs, tempSeq[p], acquired[p]>>

C18_Rejected ==
    \A p \in Procs :
        ShortEntry(p) =>
            /\ last[p].resolver = "none"
            /\ frame[p].err = errInvalidSyntax
            /\ pc[p] \in {"getMountsDefer", "returned"}
            /\ pc[p] = "returned" =>
                  /\ ret[p] = [NoRet EXCEPT !.err = errInvalidSyntax]
                  /\ AllReleased(p)

C18_NoResolver ==
    \A p \in Procs :
        frame'[p].n = frame[p].n + 1 /\ Len(last'[p].tokens) < 2 => Held(p)' = Held(p)

\* C18: an entry with fewer than two tokens makes the batch fail with the
\* incorrect-mount-format error; no resolver is called for it, and what the
\* earlier entries acquired is released.
C18_MalformedRejected == []C18_Rejected /\ [][C18_NoResolver]_vars

\* a one-token entry is rejected after an earlier entry took a lock
C18_Witness ==
    /\ Failed("b1") /\ ShortEntry("b1")
    /\ Len(last["b1"].tokens) = 1
    /\ \E x \in Range(acquired["b1"]) : x.kind = "lock"

\* relabel= tokens, and a Z or z token before a relabel= token
RelabelCount(tokens) == Cardinality({i \in 1..Len(tokens) : tokens[i].k = "relabel"})
LabelBeforeRelabel(tokens) ==
    \E i, j \in 1..Len(tokens) :
        i < j /\ tokens[i].k \in {"Z", "z"} /\ tokens[j].k = "relabel"
TokenCount(tokens, k) == Cardinality({i \in 1..Len(tokens) : tokens[i].k = k})

\* GetBindMount returned to build p
BindCalled(p) == last[p].resolver = "bind"

\* what one relabel= token does: two of them, and any value but private and
\* shared, are rejected; private puts one more Z, shared one more z
RelabelOnce(p) ==
    LET tokens == last[p].tokens
        value == LastValue(tokens, "relabel")
    IN  /\ RelabelCount(tokens) >= 2 => last[p].r.err # NoErr
        /\ RelabelCount(tokens) = 1 /\ value \notin {Word("private"), Word("shared")}
              => last[p].r.err # NoErr
        /\ RelabelCount(tokens) = 1 /\ last[p].r.err = NoErr
              => /\ Count(last[p].r.opts, "Z")
                      = TokenCount(tokens, "Z") + (IF value = Word("private") THEN 1 ELSE 0)
                 /\ Count(last[p].r.opts, "z")
                      = TokenCount(tokens, "z") + (IF value = Word("shared") THEN 1 ELSE 0)

HasSource(tokens) == \E i \in 1..Len(tokens) : tokens[i].k \in {"src", "source"}

C20_Rejected ==
    \A p \in Procs :
        last[p].resolver = "tmpfs" =>
            /\ HasSource(last[p].tokens) => last[p].r.err # NoErr
            /\ last[p].r.image = "" /\ last[p].r.overlayDir = NoPath
            /\ last[p].r.lock = NoPath /\ last[p].r.acq = <<>>

C20_NoResources ==
    \A p \in Procs :
        frame'[p].n = frame[p].n + 1 /\ last'[p].resolver = "tmpfs"
            => /\ Held(p)' = Held(p)
               /\ frame'[p].mountedImages = frame[p].mountedImages
               /\ frame'[p].overlayDirs = frame[p].overlayDirs
               /\ frame'[p].targetLocks = frame[p].targetLocks

\* C20: a tmpfs specification with a src or source token fails, and a tmpfs
\* resolution adds no image, overlay directory or lock to those of the batch.
C20_TmpfsNoSource == []C20_Rejected /\ [][C20_NoResources]_vars

\* a source token after the destination is rejected; the batch held a lock
C20_Witness ==
    /\ last["b1"].resolver = "tmpfs"
    /\ \E i, j \in 1..Len(last["b1"].tokens) :
          /\ i < j
          /\ last["b1"].tokens[i].k = "target"
          /\ last["b1"].tokens[j].k = "source"
    /\ last["b1"].r.err = "source is not supported with tmpfs mounts"
    /\ frame["b1"].targetLocks # <<>>


\* GetVolumes of build p has returned
Returns(p) == pc[p] \in {"returned", "finished"}

\* C21: with no other build to hold a lock, GetVolumes returns for every
\* batch, also when two of its entries ask for the lock of the same cache entry.
C21_BatchReturns == <>Returns("b1")

\* a build waits for a lock file only while another build holds it
C21_NoSelfWait ==
    \A p \in Procs : pc[p] = "lock" => <<last[p].r.lock, p>> \notin locks

\* the releases of build p that were made by one of the functions in who
ReleasedBy(p, who) == SelectSeq(released[p], LAMBDA e : e.by \in who)

\* C22: every side resource of a batch is handed to its release operation at
\* most as often as the batch acquired it, whichever of the resolver, getMounts
\* and GetVolumes does the rolling back.
C22_NoDoubleRelease ==
    \A p \in Procs :
        \A x \in Range(acquired[p]) : Attempts(p, x) <= Count(acquired[p], x)

\* a failed batch mounted one image twice: the resolver of the failing entry
\* unmounted it once, the rollback of getMounts once more
C22_Witness ==
    \E p \in Procs :
        /\ Failed(p)
        /\ \E e \in Range(ReleasedBy(p, {"GetBindMount"})) :
              /\ e.kind = "image"
              /\ \E f \in Range(ReleasedBy(p, {"getMounts"})) :
                    f.kind = "image" /\ f.id = e.id

\* the releases made by the rollbacks of getMounts and GetVolumes for build p
RolledBack(p) == ReleasedBy(p, {"getMounts", "GetVolumes"})

\* resource id of the given kind was handed to its release operation before
\* position j of rb; with done, the operation also succeeded
ReleasedBefore(rb, j, kind, id, done) ==
    \E i \in 1..(j - 1) :
        rb[i].kind = kind /\ rb[i].id = id /\ (done => rb[i].ok)

\* the order of a rollback: before an image is unmounted every overlay directory
\* of the batch was handed to RemoveTemp, before a lock is released every
\* image of the batch was handed to UnmountImage; with done, they succeeded
RollbackOrdered(p, done) ==
    LET rb == RolledBack(p)
    IN  \A j \in 1..Len(rb) :
            /\ rb[j].kind \in {"image", "lock"} =>
                  \A d \in Range(frame[p].overlayDirs) :
                      ReleasedBefore(rb, j, "overlay", d, done)
            /\ rb[j].kind = "lock" =>
                  \A m \in Range(frame[p].mountedImages) :
                      ReleasedBefore(rb, j, "image", m, done)

\* C23 as stated: in a rollback of getMounts or GetVolumes every overlay
\* directory of the batch has been removed before an image is unmounted, and
\* every image has been unmounted before a lock is released.
C23_RemovedBeforeUnmount == \A p \in Procs : RollbackOrdered(p, TRUE)

\* C23: in a rollback of getMounts or GetVolumes the removal of every overlay
\* directory of the batch is attempted before any image is unmounted, and the
\* unmount of every image is attempted before any lock is released; a removal
\* or unmount that fails does not stop the rollback.
C23_RollbackOrder == \A p \in Procs : RollbackOrdered(p, FALSE)

\* a rollback over an overlay directory, an image and a lock, in which the
\* removal of the overlay directory failed and the image was unmounted after it
C23_Witness ==
    \E p \in Procs :
        LET rb == RolledBack(p)
        IN  /\ Failed(p)
            /\ \E i, j, k \in 1..Len(rb) :
                  /\ i < j /\ j < k
                  /\ rb[i].kind = "overlay" /\ ~rb[i].ok
                  /\ rb[j].kind = "image"
                  /\ rb[k].kind = "lock"

\* the errors with which GetCacheMount rejects its input
CacheInputErrors ==
    {errBadMntOption, errBadOptionArg, "unable to parse cache mode",
     "unable to parse cache uid", "unable to parse cache gid", errBadVolDest,
     "no stage or additional build context found",
     "unrecognized value for field sharing", "parse.ValidateVolumeOpts"}

\* build p comes back from a GetCacheMount call that rejected its input
CacheRejects(p) ==
    /\ last'[p] # last[p]
    /\ last'[p].resolver = "cache"
    /\ last'[p].r.err \in CacheInputErrors

\* C24: a GetCacheMount call that rejects its input creates no cache directory
\* and no lock-file directory on the host.
C24_RejectedLeavesHost ==
    [][\A p \in Procs : CacheRejects(p) => cacheDirs' = cacheDirs]_vars

====
